---- MODULE Spec2Model ----
(***************************************************************************)
(* Noshiro input orchestration: the InputManager of src/src/index.ts        *)
(* (promptYesNo, promptText, enableRawMode, disableRawMode) together with   *)
(* the input handle it drives (listener list, raw/buffered delivery,        *)
(* flowing/paused), the logger channels and the readline line reader.       *)
(***************************************************************************)
EXTENDS Integers, Sequences, FiniteSets, TLC

\* Bounds of the model.
MaxCalls == 3       \* raw-mode calls made on one manager
MaxLines == 3       \* lines a user types during one prompt call
MaxAdvancing == 2   \* onAdvance invocations in progress at once
ShortCalls == 2     \* raw-mode calls made on a manager that also prompts
ShortLines == 1     \* lines typed during a prompt call on a manager in raw mode

\* ------------------------------------------------------------------------
\* Characters and strings.  A string is a sequence of one-character strings.
\* ------------------------------------------------------------------------
Whitespace == {" ", "\t"}

\* String.prototype.trim: strip leading and trailing whitespace.
RECURSIVE TrimStart(_)
TrimStart(s) ==
    IF s # <<>> /\ Head(s) \in Whitespace THEN TrimStart(Tail(s)) ELSE s

RECURSIVE TrimEnd(_)
TrimEnd(s) ==
    IF s # <<>> /\ s[Len(s)] \in Whitespace
    THEN TrimEnd(SubSeq(s, 1, Len(s) - 1))
    ELSE s

Trim(s) == TrimEnd(TrimStart(s))

\* String.prototype.toLowerCase on the letters the model uses.
LowerChar(c) ==
    CASE c = "Y" -> "y"
      [] c = "E" -> "e"
      [] c = "S" -> "s"
      [] c = "N" -> "n"
      [] c = "O" -> "o"
      [] c = "B" -> "b"
      [] OTHER -> c

ToLowerCase(s) == [i \in 1..Len(s) |-> LowerChar(s[i])]

\* The lines a user may type.
Lines ==
    { <<>>,
      <<" ">>,
      <<"y">>,
      <<" ", "Y", "e", "s", "\t">>,
      <<"N">>,
      <<"n", "o", " ">>,
      <<"m", "a", "y", "b", "e">>,
      <<" ", "B", "o", "b", " ">> }

\* ------------------------------------------------------------------------
\* State.
\* ------------------------------------------------------------------------
VARIABLES
    stdin,            \* this.stdin: "null", "pipe" (not a terminal) or "tty"
    stdout,           \* this.stdout: "null" or "present"
    logger,           \* the channels of this.logger that exist, among warn and error
    canSetRawMode,    \* whether the input handle has a setRawMode method
    rawInputHandler,  \* this.rawInputHandler: a closure id, 0 for null
    rawModeEnabled,   \* this.rawModeEnabled
    forward,          \* forward[id]: the handler closure id forwards to
    listeners,        \* the 'data' listeners of the input handle, in order
    ttyRaw,           \* the input handle delivers raw (unbuffered) characters
    flowing,          \* the input handle is flowing (resumed), not paused
    calls,            \* the raw-mode calls made on the manager so far
    last,             \* what the latest raw-mode call did
    fired,            \* the handler invocations made by the latest chunk
    prompt,           \* the prompt call in progress, or the one that finished last
    openReaders,      \* line readers created and not yet closed
    advancing         \* onAdvance invocations started and not yet completed

vars == << stdin, stdout, logger, canSetRawMode, rawInputHandler, rawModeEnabled,
           forward, listeners, ttyRaw, flowing, calls, last, fired, prompt,
           openReaders, advancing >>

config == << stdin, stdout, logger, canSetRawMode >>
rawVars == << rawInputHandler, rawModeEnabled, forward, listeners, ttyRaw, flowing,
              calls, last >>
promptVars == << prompt, openReaders >>

Handlers == {"h1", "h2"}

\* Chunks of bytes the input handle may deliver: ESC, CR, LF, "a", CR LF.
Buffers == { <<27>>, <<13>>, <<10>>, <<97>>, <<13, 10>> }

\* Buffer.prototype.toString on the bytes the model uses.
CharOf(b) ==
    CASE b = 27 -> "ESC"
      [] b = 13 -> "\r"
      [] b = 10 -> "\n"
      [] OTHER -> "a"

BufferToString(data) == [i \in 1..Len(data) |-> CharOf(data[i])]

NoCall == [op |-> "none", handler |-> "none", result |-> FALSE, raised |-> FALSE,
           fail |-> "none", errors |-> 0, warns |-> 0]

\* logger?.error?.(...) and logger?.warn?.(...): the number of messages that
\* reach the channel.
LogError == IF "error" \in logger THEN 1 ELSE 0
LogWarn == IF "warn" \in logger THEN 1 ELSE 0

\* ------------------------------------------------------------------------
\* The input handle's listener list (EventEmitter on/off/emit).
\* ------------------------------------------------------------------------
On(ls, l) == Append(ls, l)

\* off removes the most recently added instance of l, if any.
RECURSIVE LastIndexOf(_, _, _)
LastIndexOf(ls, l, i) ==
    IF i = 0 THEN 0
    ELSE IF ls[i] = l THEN i
    ELSE LastIndexOf(ls, l, i - 1)

Off(ls, l) ==
    LET i == LastIndexOf(ls, l, Len(ls))
    IN  IF i = 0 THEN ls
        ELSE SubSeq(ls, 1, i - 1) \o SubSeq(ls, i + 1, Len(ls))

\* ------------------------------------------------------------------------
\* Raw mode.
\* ------------------------------------------------------------------------
NoChunk == [data |-> <<>>, invoked |-> <<>>, exits |-> 0, advances |-> 0]

\* The terminal calls that may throw inside a raw-mode call.
Failures == {"none", "setRawMode", "resume", "pause"}

\* Variant of SwitchOn: the catch logs the error and does not return.
SwitchOn_noReturn(fail) ==
    IF canSetRawMode /\ fail = "setRawMode"
    THEN [ok |-> TRUE, raised |-> FALSE, ttyRaw |-> ttyRaw, flowing |-> flowing,
          enabled |-> rawModeEnabled, errors |-> LogError]
    ELSE IF fail = "resume"
    THEN [ok |-> TRUE, raised |-> FALSE, ttyRaw |-> (canSetRawMode \/ ttyRaw),
          flowing |-> flowing, enabled |-> rawModeEnabled, errors |-> LogError]
    ELSE [ok |-> TRUE, raised |-> FALSE, ttyRaw |-> (canSetRawMode \/ ttyRaw),
          flowing |-> TRUE, enabled |-> TRUE, errors |-> 0]

\* Variant of SwitchOn: the catch clears the raw-mode flag.
SwitchOn_clearsFlag(fail) ==
    IF canSetRawMode /\ fail = "setRawMode"
    THEN [ok |-> FALSE, raised |-> FALSE, ttyRaw |-> ttyRaw, flowing |-> flowing,
          enabled |-> FALSE, errors |-> LogError]
    ELSE IF fail = "resume"
    THEN [ok |-> FALSE, raised |-> FALSE, ttyRaw |-> (canSetRawMode \/ ttyRaw),
          flowing |-> flowing, enabled |-> FALSE, errors |-> LogError]
    ELSE [ok |-> TRUE, raised |-> FALSE, ttyRaw |-> (canSetRawMode \/ ttyRaw),
          flowing |-> TRUE, enabled |-> TRUE, errors |-> 0]

\* enableRawMode, the try block: setRawMode?.(true), resume(), set the flag;
\* the catch logs one error and returns false.  fail names the call that throws.
SwitchOn(fail) ==
    IF canSetRawMode /\ fail = "setRawMode"
    THEN [ok |-> FALSE, raised |-> FALSE, ttyRaw |-> ttyRaw, flowing |-> flowing,
          enabled |-> rawModeEnabled, errors |-> LogError]
    ELSE IF fail = "resume"
    THEN [ok |-> FALSE, raised |-> FALSE, ttyRaw |-> (canSetRawMode \/ ttyRaw),
          flowing |-> flowing, enabled |-> rawModeEnabled, errors |-> LogError]
    ELSE [ok |-> TRUE, raised |-> FALSE, ttyRaw |-> (canSetRawMode \/ ttyRaw),
          flowing |-> TRUE, enabled |-> TRUE, errors |-> 0]

\* enableRawMode, after the try block: a new closure forwarding to handler is
\* stored in the handler slot and registered on the input handle.
Attach(handler) ==
    /\ forward' = Append(forward, handler)
    /\ rawInputHandler' = Len(forward) + 1
    /\ listeners' = On(listeners, Len(forward) + 1)

\* Variant of IsTTY: any input handle passes.
IsTTY_anyHandle == stdin # "null"

\* this.stdin?.isTTY.
IsTTY == stdin = "tty"

enableRawMode(handler, fail) ==
    /\ fail \in {"none", "setRawMode", "resume"}
    /\ fail # "none" => stdin = "tty"
    /\ fail = "setRawMode" => canSetRawMode
    /\ IF ~IsTTY
       THEN /\ last' = [NoCall EXCEPT !.op = "enable", !.handler = handler]
            /\ calls' = Append(calls, [op |-> "enable", handler |-> handler,
                                       result |-> FALSE])
            /\ UNCHANGED << rawInputHandler, rawModeEnabled, forward, listeners,
                            ttyRaw, flowing >>
       ELSE LET sw == SwitchOn(fail)
            IN  /\ ttyRaw' = sw.ttyRaw
                /\ flowing' = sw.flowing
                /\ rawModeEnabled' = sw.enabled
                /\ IF sw.ok
                   THEN Attach(handler)
                   ELSE UNCHANGED << rawInputHandler, forward, listeners >>
                /\ last' = [op |-> "enable", handler |-> handler, result |-> sw.ok,
                            raised |-> sw.raised, fail |-> fail,
                            errors |-> sw.errors, warns |-> 0]
                /\ calls' = Append(calls, [op |-> "enable", handler |-> handler,
                                           result |-> sw.ok])
    /\ fired' = NoChunk
    /\ UNCHANGED << config, advancing, promptVars >>

\* Variant of Detach: the slot is cleared and the listener is not removed.
Detach_slotOnly ==
    /\ listeners' = listeners
    /\ rawInputHandler' = 0

\* disableRawMode, the stored handler: off('data', handler), clear the slot.
Detach ==
    /\ listeners' = IF rawInputHandler # 0
                    THEN Off(listeners, rawInputHandler)
                    ELSE listeners
    /\ rawInputHandler' = 0

\* Variant of SwitchOff: the flag is never cleared.
SwitchOff_keepsFlag(fail) ==
    IF canSetRawMode /\ fail = "setRawMode"
    THEN [raised |-> FALSE, ttyRaw |-> ttyRaw, flowing |-> flowing,
          enabled |-> TRUE, warns |-> LogWarn]
    ELSE IF fail = "pause"
    THEN [raised |-> FALSE, ttyRaw |-> (ttyRaw /\ ~canSetRawMode),
          flowing |-> flowing, enabled |-> TRUE, warns |-> LogWarn]
    ELSE [raised |-> FALSE, ttyRaw |-> (ttyRaw /\ ~canSetRawMode),
          flowing |-> FALSE, enabled |-> TRUE, warns |-> 0]

\* Variant of SwitchOff: the flag is cleared inside the try, after pause().
SwitchOff_flagInTry(fail) ==
    IF canSetRawMode /\ fail = "setRawMode"
    THEN [raised |-> FALSE, ttyRaw |-> ttyRaw, flowing |-> flowing,
          enabled |-> TRUE, warns |-> LogWarn]
    ELSE IF fail = "pause"
    THEN [raised |-> FALSE, ttyRaw |-> (ttyRaw /\ ~canSetRawMode),
          flowing |-> flowing, enabled |-> TRUE, warns |-> LogWarn]
    ELSE [raised |-> FALSE, ttyRaw |-> (ttyRaw /\ ~canSetRawMode),
          flowing |-> FALSE, enabled |-> FALSE, warns |-> 0]

\* disableRawMode, the raw-mode flag: setRawMode?.(false), pause(); a throw
\* is caught and logged as one warning; the flag is cleared after the try.
SwitchOff(fail) ==
    IF canSetRawMode /\ fail = "setRawMode"
    THEN [raised |-> FALSE, ttyRaw |-> ttyRaw, flowing |-> flowing,
          enabled |-> FALSE, warns |-> LogWarn]
    ELSE IF fail = "pause"
    THEN [raised |-> FALSE, ttyRaw |-> (ttyRaw /\ ~canSetRawMode),
          flowing |-> flowing, enabled |-> FALSE, warns |-> LogWarn]
    ELSE [raised |-> FALSE, ttyRaw |-> (ttyRaw /\ ~canSetRawMode),
          flowing |-> FALSE, enabled |-> FALSE, warns |-> 0]

disableRawMode(fail) ==
    /\ fail \in {"none", "setRawMode", "pause"}
    /\ fail # "none" => stdin # "null" /\ rawModeEnabled
    /\ fail = "setRawMode" => canSetRawMode
    /\ IF stdin = "null"
       THEN /\ last' = [NoCall EXCEPT !.op = "disable"]
            /\ UNCHANGED << rawInputHandler, rawModeEnabled, listeners, ttyRaw,
                            flowing >>
       ELSE /\ Detach
            /\ IF rawModeEnabled
               THEN LET sw == SwitchOff(fail)
                    IN  /\ ttyRaw' = sw.ttyRaw
                        /\ flowing' = sw.flowing
                        /\ rawModeEnabled' = sw.enabled
                        /\ last' = [op |-> "disable", handler |-> "none",
                                    result |-> FALSE, raised |-> sw.raised,
                                    fail |-> fail, errors |-> 0,
                                    warns |-> sw.warns]
               ELSE /\ last' = [NoCall EXCEPT !.op = "disable"]
                    /\ UNCHANGED << rawModeEnabled, ttyRaw, flowing >>
    /\ calls' = Append(calls, [op |-> "disable", handler |-> "none",
                               result |-> FALSE])
    /\ fired' = NoChunk
    /\ UNCHANGED << config, advancing, forward, promptVars >>

\* The input handle emits 'data': every registered listener is called once,
\* in registration order, and forwards data.toString() to its handler.
Invoke(ls, data) ==
    [i \in 1..Len(ls) |-> [handler |-> forward[ls[i]], key |-> BufferToString(data)]]

\* Variant of ManualKeyHandler: a key is dropped while an advance is in progress.
ManualKeyHandler_serialised(key) ==
    IF key = <<"ESC">>
    THEN [exits |-> 1, advances |-> 0]
    ELSE IF (key = <<"\r">> \/ key = <<"\n">>) /\ advancing = 0
    THEN [exits |-> 0, advances |-> 1]
    ELSE [exits |-> 0, advances |-> 0]

\* The key handler of attachManualControls: ESC calls onExit and returns; CR
\* or LF calls onAdvance and discards its promise.  The callbacks it calls.
ManualKeyHandler(key) ==
    IF key = <<"ESC">>
    THEN [exits |-> 1, advances |-> 0]
    ELSE IF key = <<"\r">> \/ key = <<"\n">>
    THEN [exits |-> 0, advances |-> 1]
    ELSE [exits |-> 0, advances |-> 0]

\* The onExit and onAdvance calls made by the invocations inv of one chunk.
RECURSIVE Callbacks(_)
Callbacks(inv) ==
    IF inv = <<>> THEN [exits |-> 0, advances |-> 0]
    ELSE LET rest == Callbacks(Tail(inv))
             this == IF Head(inv).handler = "manual"
                     THEN ManualKeyHandler(Head(inv).key)
                     ELSE [exits |-> 0, advances |-> 0]
         IN  [exits |-> this.exits + rest.exits,
              advances |-> this.advances + rest.advances]

\* onAdvance suspends: an invocation stays in progress after the key handler
\* has returned, until AdvanceCompletes.
Deliver(data) ==
    /\ stdin = "tty"
    /\ flowing
    /\ LET inv == Invoke(listeners, data)
           cb == Callbacks(inv)
       IN  /\ fired' = [data |-> data, invoked |-> inv, exits |-> cb.exits,
                        advances |-> cb.advances]
           /\ advancing' = advancing + cb.advances
    /\ UNCHANGED << config, rawVars, promptVars >>

\* The promise of one onAdvance invocation settles.
AdvanceCompletes ==
    /\ advancing > 0
    /\ advancing' = advancing - 1
    /\ UNCHANGED << config, rawVars, fired, promptVars >>

\* GameInputController.attachManualControls and detachManualControls.
attachManualControls(fail) == enableRawMode("manual", fail)

detachManualControls(fail) == disableRawMode(fail)

\* ------------------------------------------------------------------------
\* Prompts.
\* ------------------------------------------------------------------------
Yes == { <<"y">>, <<"y", "e", "s">> }
No == { <<"n">>, <<"n", "o">> }

\* The option records callers pass.  A field that does not apply to the kind
\* of prompt, or an absent default, holds a fixed filler value.
YesNoOptions ==
    { [kind |-> "yesno", hasDefault |-> d, defBool |-> b, defText |-> <<>>,
       allowEmpty |-> FALSE] : d \in BOOLEAN, b \in BOOLEAN } \
    { [kind |-> "yesno", hasDefault |-> FALSE, defBool |-> TRUE, defText |-> <<>>,
       allowEmpty |-> FALSE] }

TextDefaults == { <<>>, <<"x">> }

TextOptions ==
    { [kind |-> "text", hasDefault |-> d, defBool |-> FALSE, defText |-> t,
       allowEmpty |-> e] : d \in BOOLEAN, t \in TextDefaults, e \in BOOLEAN } \
    { [kind |-> "text", hasDefault |-> FALSE, defBool |-> FALSE, defText |-> <<"x">>,
       allowEmpty |-> e] : e \in BOOLEAN }

NoOptions == [kind |-> "none", hasDefault |-> FALSE, defBool |-> FALSE,
              defText |-> <<>>, allowEmpty |-> FALSE]

NoOutcome == [status |-> "none", bool |-> FALSE, text |-> <<>>, error |-> "none"]

Returned(b, t) == [status |-> "returned", bool |-> b, text |-> t, error |-> "none"]
Threw(e) == [status |-> "threw", bool |-> FALSE, text |-> <<>>, error |-> e]

NoPrompt == [pc |-> "idle", options |-> NoOptions, heard |-> <<>>,
             warns |-> 0, writes |-> 0, opened |-> 0, outcome |-> NoOutcome]

\* isInteractive(): Boolean(this.stdin?.isTTY && this.stdout).
IsInteractive == stdin = "tty" /\ stdout = "present"

\* Variant of HasDefault: the default is tested for truthiness.
HasDefault_truthy(o) ==
    o.hasDefault /\ (IF o.kind = "yesno" THEN o.defBool ELSE o.defText # <<>>)

\* options.defaultValue !== undefined.
HasDefault(o) == o.hasDefault

\* Variant of YesNoDecide: the answer is trimmed and not lower-cased.
YesNoDecide_noLowerCase(answer, o) ==
    LET normalized == Trim(answer)
    IN  IF normalized = <<>> /\ HasDefault(o)
        THEN [act |-> "default", bool |-> o.defBool, text |-> <<>>]
        ELSE IF normalized \in Yes
        THEN [act |-> "return", bool |-> TRUE, text |-> <<>>]
        ELSE IF normalized \in No
        THEN [act |-> "return", bool |-> FALSE, text |-> <<>>]
        ELSE [act |-> "warn", bool |-> FALSE, text |-> <<>>]

\* Variant of YesNoDecide: the line is tested for emptiness before trimming.
YesNoDecide_emptyBeforeTrim(answer, o) ==
    LET normalized == ToLowerCase(Trim(answer))
    IN  IF answer = <<>> /\ HasDefault(o)
        THEN [act |-> "default", bool |-> o.defBool, text |-> <<>>]
        ELSE IF normalized \in Yes
        THEN [act |-> "return", bool |-> TRUE, text |-> <<>>]
        ELSE IF normalized \in No
        THEN [act |-> "return", bool |-> FALSE, text |-> <<>>]
        ELSE [act |-> "warn", bool |-> FALSE, text |-> <<>>]

\* promptYesNo, one pass of the loop body on the line read.
YesNoDecide(answer, o) ==
    LET normalized == ToLowerCase(Trim(answer))
    IN  IF normalized = <<>> /\ HasDefault(o)
        THEN [act |-> "default", bool |-> o.defBool, text |-> <<>>]
        ELSE IF normalized \in Yes
        THEN [act |-> "return", bool |-> TRUE, text |-> <<>>]
        ELSE IF normalized \in No
        THEN [act |-> "return", bool |-> FALSE, text |-> <<>>]
        ELSE [act |-> "warn", bool |-> FALSE, text |-> <<>>]

\* Variant of TextDecide: allowEmpty is tested before the default.
TextDecide_allowEmptyFirst(answer, o) ==
    LET trimmed == Trim(answer)
    IN  IF Len(trimmed) = 0
        THEN IF o.allowEmpty
             THEN [act |-> "return", bool |-> FALSE, text |-> <<>>]
             ELSE IF HasDefault(o)
             THEN [act |-> "default", bool |-> FALSE, text |-> o.defText]
             ELSE [act |-> "warn", bool |-> FALSE, text |-> <<>>]
        ELSE [act |-> "return", bool |-> FALSE, text |-> trimmed]

\* Variant of TextDecide: the line is returned as typed.
TextDecide_noTrim(answer, o) ==
    LET trimmed == Trim(answer)
    IN  IF Len(trimmed) = 0
        THEN IF HasDefault(o)
             THEN [act |-> "default", bool |-> FALSE, text |-> o.defText]
             ELSE IF o.allowEmpty
             THEN [act |-> "return", bool |-> FALSE, text |-> <<>>]
             ELSE [act |-> "warn", bool |-> FALSE, text |-> <<>>]
        ELSE [act |-> "return", bool |-> FALSE, text |-> answer]

\* promptText, one pass of the loop body on the line read.
TextDecide(answer, o) ==
    LET trimmed == Trim(answer)
    IN  IF Len(trimmed) = 0
        THEN IF HasDefault(o)
             THEN [act |-> "default", bool |-> FALSE, text |-> o.defText]
             ELSE IF o.allowEmpty
             THEN [act |-> "return", bool |-> FALSE, text |-> <<>>]
             ELSE [act |-> "warn", bool |-> FALSE, text |-> <<>>]
        ELSE [act |-> "return", bool |-> FALSE, text |-> trimmed]

Decide(answer, o) ==
    IF o.kind = "yesno" THEN YesNoDecide(answer, o) ELSE TextDecide(answer, o)

\* readline.createInterface({input, output}).
CreateInterface == openReaders' = openReaders + 1

\* Variant of Close: rl.close() follows the loop without a finally clause.
Close_notOnThrow(exit) ==
    openReaders' = IF exit = "throw" THEN openReaders ELSE openReaders - 1

\* finally { rl.close() }.  exit is the way the loop is left: "return",
\* "default" or "throw".
Close(exit) == openReaders' = openReaders - 1

\* The errors thrown when no terminal is available and no default is given.
NoTTY(o) ==
    IF o.kind = "yesno"
    THEN "TTY input is not available for yes/no prompt."
    ELSE "TTY input is not available for text prompt."

\* Variant of NonInteractive: the default is returned without testing it.
NonInteractive_noThrow(o) ==
    /\ prompt' = [NoPrompt EXCEPT
                    !.options = o,
                    !.outcome = Returned(o.defBool, o.defText)]
    /\ UNCHANGED openReaders

\* The part of promptYesNo and promptText before the loop, not interactive.
NonInteractive(o) ==
    /\ prompt' = [NoPrompt EXCEPT
                    !.options = o,
                    !.outcome = IF HasDefault(o)
                                THEN Returned(o.defBool, o.defText)
                                ELSE Threw(NoTTY(o))]
    /\ UNCHANGED openReaders

\* Variant of PromptCall: a prompt is refused while a raw handler is attached.
PromptCall_exclusive(o) ==
    /\ prompt.pc = "idle"
    /\ IF rawInputHandler # 0
       THEN /\ prompt' = [NoPrompt EXCEPT !.options = o,
                                          !.outcome = Threw("raw mode is active")]
            /\ UNCHANGED openReaders
       ELSE IF ~IsInteractive
       THEN NonInteractive(o)
       ELSE /\ CreateInterface
            /\ prompt' = [NoPrompt EXCEPT
                            !.pc = "ask", !.options = o, !.opened = 1,
                            !.outcome = [NoOutcome EXCEPT !.status = "pending"]]
    /\ UNCHANGED << config, advancing, rawVars, fired >>

\* promptYesNo and promptText up to the loop.
PromptCall(o) ==
    /\ prompt.pc = "idle"
    /\ IF ~IsInteractive
       THEN NonInteractive(o)
       ELSE /\ CreateInterface
            /\ prompt' = [NoPrompt EXCEPT
                            !.pc = "ask", !.options = o, !.opened = 1,
                            !.outcome = [NoOutcome EXCEPT !.status = "pending"]]
    /\ UNCHANGED << config, advancing, rawVars, fired >>

promptYesNo(o) == o \in YesNoOptions /\ PromptCall(o)

promptText(o) == o \in TextOptions /\ PromptCall(o)

\* rl.question(promptText, resolve): the prompt is written to the output handle
\* and the call suspends until a line arrives.
Question ==
    /\ prompt.pc = "ask"
    /\ prompt' = [prompt EXCEPT !.pc = "await", !.writes = @ + 1]
    /\ UNCHANGED << config, advancing, rawVars, fired, openReaders >>

\* rl.question throws (the reader was closed under the call): the exception
\* leaves the loop through the finally clause.
QuestionThrows ==
    /\ prompt.pc = "ask"
    /\ Close("throw")
    /\ prompt' = [prompt EXCEPT !.pc = "idle", !.outcome = Threw("readline was closed")]
    /\ UNCHANGED << config, advancing, rawVars, fired >>

\* Variant of Answer: the loop gives up at the second line it cannot accept.
Answer_capped(line) ==
    /\ prompt.pc = "await"
    /\ LET d == Decide(line, prompt.options)
       IN  IF d.act = "warn" /\ Len(prompt.heard) = 0
           THEN /\ prompt' = [prompt EXCEPT !.pc = "ask",
                                            !.heard = Append(@, line),
                                            !.warns = @ + LogWarn]
                /\ UNCHANGED openReaders
           ELSE /\ Close(d.act)
                /\ prompt' = [prompt EXCEPT !.pc = "idle",
                                            !.heard = Append(@, line),
                                            !.outcome = Returned(d.bool, d.text)]
    /\ UNCHANGED << config, advancing, rawVars, fired >>

\* The user types a line: the pending question resolves with it and the loop
\* body runs on it.  heard is the lines the call has read so far.
Answer(line) ==
    /\ prompt.pc = "await"
    /\ LET d == Decide(line, prompt.options)
       IN  IF d.act = "warn"
           THEN /\ prompt' = [prompt EXCEPT !.pc = "ask",
                                            !.heard = Append(@, line),
                                            !.warns = @ + LogWarn]
                /\ UNCHANGED openReaders
           ELSE /\ Close(d.act)
                /\ prompt' = [prompt EXCEPT !.pc = "idle",
                                            !.heard = Append(@, line),
                                            !.outcome = Returned(d.bool, d.text)]
    /\ UNCHANGED << config, advancing, rawVars, fired >>

\* The user types a line the loop warns about, or one it does not.
RejectedAnswer ==
    /\ prompt.pc = "await"
    /\ \E line \in Lines : Decide(line, prompt.options).act = "warn" /\ Answer(line)

AcceptedAnswer ==
    /\ prompt.pc = "await"
    /\ \E line \in Lines : Decide(line, prompt.options).act # "warn" /\ Answer(line)

\* ------------------------------------------------------------------------
\* Specifications.
\* ------------------------------------------------------------------------
Init ==
    /\ stdin \in {"null", "pipe", "tty"}
    /\ stdout \in {"null", "present"}
    /\ logger \in SUBSET {"warn", "error"}
    /\ canSetRawMode \in BOOLEAN
    /\ canSetRawMode => stdin = "tty"
    /\ rawInputHandler = 0
    /\ rawModeEnabled = FALSE
    /\ forward = <<>>
    /\ listeners = <<>>
    /\ ttyRaw = FALSE
    /\ flowing = FALSE
    /\ calls = <<>>
    /\ last = NoCall
    /\ fired = NoChunk
    /\ prompt = NoPrompt
    /\ openReaders = 0
    /\ advancing = 0

\* Raw mode, key delivery and prompts on one manager.
Next ==
    \/ Len(calls) < ShortCalls /\ \E h \in Handlers, f \in Failures : enableRawMode(h, f)
    \/ Len(calls) < ShortCalls /\ \E f \in Failures : disableRawMode(f)
    \/ Deliver(<<13>>)
    \/ \E o \in YesNoOptions : promptYesNo(o)
    \/ \E o \in TextOptions : promptText(o)
    \/ Question
    \/ QuestionThrows
    \/ Len(prompt.heard) < ShortLines /\ \E line \in Lines : Answer(line)

Spec == Init /\ [][Next]_vars

\* Prompt calls alone, the user typing up to MaxLines lines during a call.
NextPrompt ==
    \/ \E o \in YesNoOptions : promptYesNo(o)
    \/ \E o \in TextOptions : promptText(o)
    \/ Question
    \/ QuestionThrows
    \/ Len(prompt.heard) < MaxLines /\ \E line \in Lines : Answer(line)

SpecPrompt == Init /\ [][NextPrompt]_vars

\* Raw mode and key delivery alone, up to MaxCalls calls.
NextRaw ==
    \/ Len(calls) < MaxCalls /\ \E h \in Handlers, f \in Failures : enableRawMode(h, f)
    \/ Len(calls) < MaxCalls /\ \E f \in Failures : disableRawMode(f)
    \/ \E data \in Buffers : Deliver(data)

SpecRaw == Init /\ [][NextRaw]_vars

\* Prompts whose user types up to MaxLines rejected lines and in the end
\* an accepted one.  Question is weakly fair: the loop runs on once the
\* pending line has arrived.  AcceptedAnswer is strongly fair: the user
\* eventually supplies a line the loop accepts.
NextPromptFair ==
    \/ \E o \in YesNoOptions : promptYesNo(o)
    \/ \E o \in TextOptions : promptText(o)
    \/ Question
    \/ QuestionThrows
    \/ Len(prompt.heard) < MaxLines /\ RejectedAnswer
    \/ AcceptedAnswer

SpecPromptFair ==
    Init /\ [][NextPromptFair]_vars /\ WF_vars(Question) /\ SF_vars(AcceptedAnswer)

\* The manual controls of a GameInputController, up to MaxCalls calls and
\* MaxAdvancing onAdvance invocations in progress.
NextManual ==
    \/ Len(calls) < MaxCalls /\ \E f \in Failures : attachManualControls(f)
    \/ Len(calls) < MaxCalls /\ \E f \in Failures : detachManualControls(f)
    \/ advancing + Len(listeners) <= MaxAdvancing /\ \E data \in Buffers : Deliver(data)
    \/ AdvanceCompletes

SpecManual == Init /\ [][NextManual]_vars

\* ------------------------------------------------------------------------
\* Properties.
\* ------------------------------------------------------------------------

\* C1: at most one keystroke listener of the manager is registered on the
\* input handle, so one incoming chunk invokes at most one handler.
C1_AtMostOneListener ==
    /\ Len(listeners) <= 1
    /\ Len(fired.invoked) <= 1

\* C2: after disableRawMode returns no handler registered through the manager
\* is attached to the input handle, a chunk invokes no handler, and the stored
\* handler reference is empty.
C2_DisableDetachesAll ==
    last.op = "disable" =>
        /\ listeners = <<>>
        /\ fired.invoked = <<>>
        /\ rawInputHandler = 0

\* The manager's raw-mode calls so far are enableRawMode(h), disableRawMode(),
\* enableRawMode(h2), on a terminal.
RoundTrip ==
    /\ stdin = "tty"
    /\ Len(calls) = 3
    /\ calls[1].op = "enable"
    /\ calls[2].op = "disable"
    /\ calls[3].op = "enable"

\* Exactly one listener is registered, it forwards to h, and a chunk delivered
\* since the latest call invoked h once and nothing else.
OnlyListener(h) ==
    /\ Len(listeners) = 1
    /\ forward[listeners[1]] = h
    /\ fired # NoChunk =>
           fired.invoked = << [handler |-> h, key |-> BufferToString(fired.data)] >>

\* C3 as stated: after enableRawMode(h), disableRawMode(), enableRawMode(h2)
\* on a terminal exactly one listener is registered, the one forwarding to h2.
C3_RoundTripAlwaysOne == RoundTrip => OnlyListener(calls[3].handler)

\* C3, amended: after that round trip, when enableRawMode(h2) returned true
\* exactly one listener is registered, forwarding to h2, and each later chunk
\* invokes h2 once and nothing else; when it returned false none is registered
\* and a chunk invokes no handler.
C3_RoundTrip ==
    RoundTrip =>
        IF calls[3].result
        THEN OnlyListener(calls[3].handler)
        ELSE listeners = <<>> /\ fired.invoked = <<>>

C3_Witness ==
    /\ RoundTrip
    /\ calls[1].result /\ calls[1].handler = "h1"
    /\ calls[3].result /\ calls[3].handler = "h2"
    /\ fired.data = <<13>>
    /\ fired.invoked = << [handler |-> "h2", key |-> <<"\r">>] >>

\* C4: every line reader opened by a prompt call is closed when the call
\* finishes, on every exit path: whenever no prompt call is in progress no
\* line reader is open.
C4_ReadersClosed == prompt.pc = "idle" => openReaders = 0

C4_Witness ==
    /\ prompt.pc = "idle"
    /\ prompt.opened = 1
    /\ prompt.outcome.status = "threw"
    /\ Len(prompt.heard) = 2
    /\ openReaders = 0

\* C5: a prompt call on a non-interactive manager with a default returns
\* exactly that default, opens no line reader, writes nothing to the output
\* handle and reads no line.
C5_DefaultWhenNotInteractive ==
    (/\ ~(stdin = "tty" /\ stdout = "present")
     /\ prompt.options.kind # "none"
     /\ prompt.options.hasDefault)
    => /\ prompt.pc = "idle"
       /\ prompt.outcome.status = "returned"
       /\ prompt.options.kind = "yesno" => prompt.outcome.bool = prompt.options.defBool
       /\ prompt.options.kind = "text" => prompt.outcome.text = prompt.options.defText
       /\ prompt.opened = 0
       /\ prompt.writes = 0
       /\ prompt.heard = <<>>
       /\ openReaders = 0

C5_Witness ==
    /\ stdin = "pipe"
    /\ stdout = "present"
    /\ prompt.options.kind = "yesno"
    /\ prompt.options.hasDefault
    /\ prompt.options.defBool = FALSE
    /\ prompt.outcome = Returned(FALSE, <<>>)

NoInteractiveInputErrors ==
    { "TTY input is not available for yes/no prompt.",
      "TTY input is not available for text prompt." }

\* C6: a prompt call on a non-interactive manager with no default fails with
\* the no-interactive-input error and changes nothing else: no line reader is
\* opened, nothing is written, and the handler slot, the raw-mode flag and the
\* input handle are as before.
C6_ErrorWhenNotInteractive ==
    [][ (/\ prompt.pc = "idle"
         /\ prompt' # prompt
         /\ ~(stdin = "tty" /\ stdout = "present")
         /\ ~prompt'.options.hasDefault)
        => /\ prompt'.pc = "idle"
           /\ prompt'.outcome.status = "threw"
           /\ prompt'.outcome.error \in NoInteractiveInputErrors
           /\ prompt'.opened = 0
           /\ prompt'.writes = 0
           /\ prompt'.heard = <<>>
           /\ UNCHANGED << openReaders, rawInputHandler, rawModeEnabled,
                           listeners, ttyRaw, flowing >> ]_vars

C6_Witness ==
    /\ stdin = "tty"
    /\ stdout = "null"
    /\ rawInputHandler # 0
    /\ rawModeEnabled
    /\ prompt.options.kind = "text"
    /\ prompt.outcome.status = "threw"
    /\ prompt.outcome.error = "TTY input is not available for text prompt."

\* A line answers a yes/no prompt when it normalizes (trim, lower case) to
\* y, yes, n or no.
Normalize(line) == ToLowerCase(Trim(line))

RECURSIVE FirstAnswer(_, _)
FirstAnswer(ls, i) ==
    IF i > Len(ls) THEN 0
    ELSE IF Normalize(ls[i]) \in Yes \cup No THEN i
    ELSE FirstAnswer(ls, i + 1)

\* C7: an interactive promptYesNo with no default, having read the lines
\* heard, has emitted one warning for each line before the first one that
\* normalizes to y, yes, n or no (to the warn channel, when there is one); it
\* has returned iff there is such a line, and then true iff the line
\* normalizes to y or yes.
C7_YesNoWarnings ==
    (/\ prompt.options.kind = "yesno"
     /\ ~prompt.options.hasDefault
     /\ prompt.opened = 1
     /\ prompt.outcome.status \in {"pending", "returned"})
    => LET k == FirstAnswer(prompt.heard, 1)
       IN  IF prompt.outcome.status = "returned"
           THEN /\ k = Len(prompt.heard)
                /\ k >= 1
                /\ prompt.warns = (k - 1) * LogWarn
                /\ prompt.outcome.bool = (Normalize(prompt.heard[k]) \in Yes)
           ELSE /\ k = 0
                /\ prompt.warns = Len(prompt.heard) * LogWarn

C7_Witness ==
    /\ prompt.options.kind = "yesno"
    /\ ~prompt.options.hasDefault
    /\ prompt.heard = << <<>>, <<"m", "a", "y", "b", "e">>, <<"y">> >>
    /\ prompt.warns = 2
    /\ prompt.outcome = Returned(TRUE, <<>>)

\* C8: when an interactive promptText reads a line that is empty after
\* trimming: with a default it returns the default (allowEmpty or not);
\* otherwise with allowEmpty it returns the empty string with no warning;
\* otherwise it emits one warning (to the warn channel, when there is one) and
\* the loop repeats.
C8_TextEmptyLine ==
    [][ (/\ prompt.pc = "await"
         /\ prompt.options.kind = "text"
         /\ Len(prompt'.heard) = Len(prompt.heard) + 1
         /\ Trim(prompt'.heard[Len(prompt'.heard)]) = <<>>)
        => IF prompt.options.hasDefault
           THEN /\ prompt'.outcome = Returned(FALSE, prompt.options.defText)
                /\ prompt'.warns = prompt.warns
           ELSE IF prompt.options.allowEmpty
           THEN /\ prompt'.outcome = Returned(FALSE, <<>>)
                /\ prompt'.warns = prompt.warns
           ELSE /\ prompt'.outcome.status = "pending"
                /\ prompt'.pc = "ask"
                /\ prompt'.warns = prompt.warns + LogWarn ]_vars

C8_Witness ==
    /\ "warn" \in logger
    /\ prompt.options.kind = "text"
    /\ ~prompt.options.hasDefault
    /\ prompt.options.allowEmpty
    /\ prompt.heard = << <<>> >>
    /\ prompt.warns = 0
    /\ prompt.outcome = Returned(FALSE, <<>>)

\* C9 as stated: when switching to raw delivery or resuming fails on a
\* terminal, enableRawMode returns false without raising, logs one error (to
\* the error channel, when there is one), and afterwards no raw-mode handler
\* is attached to the input handle.
C9_FailedEnableLeavesNoHandler ==
    (last.op = "enable" /\ last.fail # "none")
    => /\ last.result = FALSE
       /\ ~last.raised
       /\ last.errors = LogError
       /\ listeners = <<>>
       /\ rawInputHandler = 0

\* C9, amended: such a failing enableRawMode returns false without raising,
\* logs one error (to the error channel, when there is one) and attaches
\* nothing: the listeners registered on the input handle and the stored
\* handler reference are what they were before the call.
C9_FailedEnableAttachesNothing ==
    [][ (/\ Len(calls') = Len(calls) + 1
         /\ last'.op = "enable"
         /\ last'.fail # "none")
        => /\ last'.result = FALSE
           /\ ~last'.raised
           /\ last'.errors = LogError
           /\ UNCHANGED << listeners, rawInputHandler, forward >> ]_vars

C9_Witness ==
    /\ last.op = "enable"
    /\ last.fail = "resume"
    /\ last.result = FALSE
    /\ last.errors = 1
    /\ Len(calls) = 2
    /\ calls[1].result
    /\ listeners = <<1>>
    /\ rawInputHandler = 1

\* C10: disableRawMode never raises; when raw mode is active and restoring
\* buffered delivery or pausing fails, one warning is logged (to the warn
\* channel, when there is one), and after the call the raw-mode flag is false
\* and the stored handler reference is empty, as when the restore succeeds.
C10_DisableNeverRaises ==
    last.op = "disable"
    => /\ ~last.raised
       /\ rawModeEnabled = FALSE
       /\ rawInputHandler = 0
       /\ last.fail # "none" => last.warns = LogWarn
       /\ last.fail = "none" => last.warns = 0

C10_Witness ==
    /\ last.op = "disable"
    /\ last.fail = "pause"
    /\ last.warns = 1
    /\ ~last.raised
    /\ rawModeEnabled = FALSE
    /\ rawInputHandler = 0

\* A raw-mode call is made in this step.
RawCall == Len(calls') = Len(calls) + 1

\* C11: on an input handle that is not a terminal enableRawMode returns false
\* and has no side effect (no listener, no mode switch or resume, handler slot
\* and flag unchanged, nothing logged), and a disableRawMode call afterwards
\* changes nothing and does not raise.
C11_NoTerminalNoEffect ==
    [][ (RawCall /\ stdin # "tty")
        => /\ last'.result = FALSE
           /\ ~last'.raised
           /\ last'.fail = "none"
           /\ last'.errors = 0
           /\ last'.warns = 0
           /\ UNCHANGED << rawInputHandler, rawModeEnabled, forward, listeners,
                           ttyRaw, flowing >> ]_vars

C11_Witness ==
    /\ stdin = "pipe"
    /\ Len(calls) = 2
    /\ calls[1] = [op |-> "enable", handler |-> "h1", result |-> FALSE]
    /\ calls[2].op = "disable"
    /\ listeners = <<>>
    /\ rawInputHandler = 0
    /\ ~rawModeEnabled /\ ~ttyRaw /\ ~flowing

\* C12: disableRawMode called when no handler is stored and the raw-mode flag
\* is false does nothing observable (no listener removed, no restore or pause
\* attempted, nothing logged); a disableRawMode that follows a disableRawMode
\* is such a call.
C12_DisableIdempotent ==
    [][ (/\ RawCall
         /\ last'.op = "disable"
         /\ \/ rawInputHandler = 0 /\ ~rawModeEnabled
            \/ last.op = "disable")
        => /\ ~last'.raised
           /\ last'.fail = "none"
           /\ last'.errors = 0
           /\ last'.warns = 0
           /\ UNCHANGED << rawInputHandler, rawModeEnabled, forward, listeners,
                           ttyRaw, flowing >> ]_vars

C12_Witness ==
    /\ Len(calls) = 3
    /\ calls[1].op = "enable" /\ calls[1].result
    /\ calls[2].op = "disable"
    /\ calls[3].op = "disable"
    /\ last = [NoCall EXCEPT !.op = "disable"]
    /\ listeners = <<>>
    /\ ~rawModeEnabled /\ ~ttyRaw /\ ~flowing

\* The listeners that forward to the key handler of the manual controls.
ManualListeners == { i \in 1..Len(listeners) : forward[listeners[i]] = "manual" }

\* C13: after attachManualControls returned true, a delivered chunk equal to
\* ESC calls onExit once and onAdvance never, and a chunk equal to carriage
\* return or line feed calls onAdvance once and onExit never.
C13_ManualControlsOnce ==
    (last.op = "enable" /\ last.handler = "manual" /\ last.result /\ fired # NoChunk)
    => /\ fired.data = <<27>> => fired.exits = 1 /\ fired.advances = 0
       /\ fired.data \in { <<13>>, <<10>> } => fired.advances = 1 /\ fired.exits = 0

\* A chunk is delivered in this step.
DeliverStep ==
    /\ fired'.data # <<>>
    /\ fired' # fired \/ advancing' > advancing

\* C14: the key handler does not wait for onAdvance: a CR or LF chunk
\* delivered to the manual controls starts an onAdvance invocation whatever
\* the number still in progress, so invocations overlap.
C14_AdvanceNotAwaited ==
    [][ (DeliverStep /\ fired'.data \in { <<13>>, <<10>> })
        => /\ fired'.advances = Cardinality(ManualListeners)
           /\ advancing' = advancing + fired'.advances ]_vars

C14_Witness ==
    /\ Len(listeners) = 1
    /\ ManualListeners = {1}
    /\ fired.data = <<13>>
    /\ fired.advances = 1
    /\ advancing = 2

\* A line the prompt accepts: yes or no or, with a default, nothing, for a
\* yes/no prompt; anything but whitespace or, with a default or allowEmpty,
\* nothing, for a text prompt.
ValidLine(line, o) ==
    IF o.kind = "yesno"
    THEN Normalize(line) \in Yes \cup No \/ (Normalize(line) = <<>> /\ o.hasDefault)
    ELSE Trim(line) # <<>> \/ o.hasDefault \/ o.allowEmpty

AllInvalid(n) == \A i \in 1..n : ~ValidLine(prompt.heard[i], prompt.options)

\* The loop of an interactive prompt: one prompt written per line read, no
\* return while every line read is invalid, return at the first valid line.
PromptLoop ==
    prompt.opened = 1
    => /\ prompt.writes = Len(prompt.heard) + (IF prompt.pc = "await" THEN 1 ELSE 0)
       /\ prompt.outcome.status = "returned"
          => /\ prompt.heard # <<>>
             /\ ValidLine(prompt.heard[Len(prompt.heard)], prompt.options)
             /\ AllInvalid(Len(prompt.heard) - 1)
       /\ prompt.outcome.status # "returned" => AllInvalid(Len(prompt.heard))
       /\ prompt.outcome.status = "threw" => prompt.outcome.error = "readline was closed"

\* C15: an interactive prompt has no iteration cap: it writes the prompt once
\* per line it reads, does not return while every line read is invalid and
\* returns at the first valid line; if a valid line is eventually supplied
\* the call eventually returns (unless its reader is closed under it).
C15_NoIterationCap ==
    /\ []PromptLoop
    /\ (prompt.pc \in {"ask", "await"})
         ~> (prompt.pc = "idle" /\ prompt.outcome.status \in {"returned", "threw"})

C15_Witness ==
    /\ prompt.opened = 1
    /\ prompt.options.kind = "yesno"
    /\ prompt.heard = << <<"m", "a", "y", "b", "e">>, <<>>, <<" ">>,
                         <<" ", "Y", "e", "s", "\t">> >>
    /\ prompt.writes = 4
    /\ prompt.outcome = Returned(TRUE, <<>>)

\* The prompt in progress reads a line in this step; the line it reads.
ReadsLine ==
    /\ prompt.pc = "await"
    /\ Len(prompt'.heard) = Len(prompt.heard) + 1

LineRead == prompt'.heard[Len(prompt'.heard)]

Blank(line) == \A i \in 1..Len(line) : line[i] \in Whitespace

\* C16: an interactive promptYesNo with a default d, reading a line: a line
\* that is empty after trimming returns d with no warning; a line normalizing
\* to y or yes returns true and one normalizing to n or no returns false,
\* whatever d is.
C16_YesNoWithDefault ==
    [][ (ReadsLine /\ prompt.options.kind = "yesno" /\ prompt.options.hasDefault)
        => /\ Blank(LineRead)
              => /\ prompt'.outcome = Returned(prompt.options.defBool, <<>>)
                 /\ prompt'.warns = prompt.warns
           /\ Normalize(LineRead) \in Yes => prompt'.outcome = Returned(TRUE, <<>>)
           /\ Normalize(LineRead) \in No => prompt'.outcome = Returned(FALSE, <<>>) ]_vars

C16_Witness ==
    /\ "warn" \in logger
    /\ prompt.options.kind = "yesno"
    /\ prompt.options.hasDefault
    /\ prompt.options.defBool
    /\ prompt.heard = << <<" ">> >>
    /\ prompt.warns = 0
    /\ prompt.outcome = Returned(TRUE, <<>>)

\* r is line without the whitespace around it, and is not empty.
IsStripped(line, r) ==
    \E i, j \in 1..Len(line) :
        /\ i <= j
        /\ r = SubSeq(line, i, j)
        /\ line[i] \notin Whitespace
        /\ line[j] \notin Whitespace
        /\ \A k \in 1..Len(line) : (k < i \/ k > j) => line[k] \in Whitespace

\* C17: an interactive promptText reading a line that is not empty after
\* trimming returns the line without its surrounding whitespace, with no
\* warning, whatever the default and allowEmpty are.
C17_TextStripped ==
    [][ (ReadsLine /\ prompt.options.kind = "text" /\ ~Blank(LineRead))
        => /\ prompt'.outcome.status = "returned"
           /\ IsStripped(LineRead, prompt'.outcome.text)
           /\ prompt'.warns = prompt.warns ]_vars

C17_Witness ==
    /\ "warn" \in logger
    /\ prompt.options.kind = "text"
    /\ prompt.options.hasDefault
    /\ prompt.options.defText = <<"x">>
    /\ prompt.options.allowEmpty
    /\ prompt.heard = << <<" ", "B", "o", "b", " ">> >>
    /\ prompt.warns = 0
    /\ prompt.outcome = Returned(FALSE, <<"B", "o", "b">>)

\* C18: an enableRawMode that returns false leaves the delivery mode of the
\* input handle (raw or buffered, flowing or paused) and the raw-mode flag as
\* they were before the call.
C18_FailedEnableRestores ==
    [][ (RawCall /\ last'.op = "enable" /\ ~last'.result)
        => UNCHANGED << ttyRaw, flowing, rawModeEnabled >> ]_vars

\* C19: whatever enableRawMode, disableRawMode and prompt calls were made, a
\* stored handler is registered on the input handle and the raw-mode flag is
\* true while it is stored.
C19_StoredHandlerRegistered ==
    rawInputHandler # 0
    => /\ rawModeEnabled
       /\ \E i \in 1..Len(listeners) : listeners[i] = rawInputHandler

C19_Witness ==
    /\ Len(calls) = 2
    /\ calls[1] = [op |-> "enable", handler |-> "h1", result |-> TRUE]
    /\ calls[2] = [op |-> "enable", handler |-> "h2", result |-> FALSE]
    /\ prompt.outcome.status = "returned"
    /\ prompt.heard # <<>>
    /\ rawInputHandler = 1
    /\ rawModeEnabled
    /\ listeners = <<1>>

\* A step of a prompt: the call itself, a prompt written, a line read, an
\* exception leaving the loop.
PromptStep == prompt' # prompt

\* C20: prompts and raw mode are not mutually exclusive.  A prompt called
\* while a raw handler is attached starts as it would without one (it throws
\* only for want of a terminal and of a default); no step of a prompt, on any
\* exit path, changes the stored handler, the raw-mode flag or the registered
\* listeners; a chunk arriving during the prompt still reaches the stored
\* handler.
C20_PromptsKeepRawMode ==
    [][ /\ PromptStep
           => UNCHANGED << rawInputHandler, rawModeEnabled, listeners, forward >>
        /\ (PromptStep /\ prompt.pc = "idle" /\ rawInputHandler # 0)
           => /\ IsInteractive => prompt'.pc = "ask" /\ prompt'.outcome.status = "pending"
              /\ prompt'.outcome.status = "threw"
                 => /\ ~IsInteractive
                    /\ ~prompt'.options.hasDefault
                    /\ prompt'.outcome.error = NoTTY(prompt'.options)
        /\ (DeliverStep /\ prompt.pc # "idle" /\ rawInputHandler # 0)
           => \E i \in 1..Len(fired'.invoked) :
                 fired'.invoked[i].handler = forward[rawInputHandler] ]_vars

C20_Witness ==
    /\ rawInputHandler = 1
    /\ rawModeEnabled
    /\ listeners = <<1>>
    /\ prompt.pc = "await"
    /\ prompt.heard # <<>>
    /\ fired.data = <<13>>
    /\ fired.invoked # <<>>
    /\ fired.invoked[1].handler = forward[1]

====
